---- MODULE Spec2Model ----
(***************************************************************************)
(* A model of bloom_filter.py: the BitArray storage primitive, the Bloom   *)
(* filter engine (BloomFilterBase) with its three hash strategies          *)
(* (ModuloBloomFilter, SaltedSHA256BloomFilter, ComposedSHABloomFilter),   *)
(* and the sizing algorithm of create().                                   *)
(*                                                                         *)
(* Python integers are unbounded; every value the model computes stays    *)
(* below 2^31.  Floats are modelled in fixed point (see FP below).         *)
(***************************************************************************)
EXTENDS Integers, Sequences, FiniteSets, TLC

VARIABLES
    pc,          \* which object exists: "start", "bitarray", "sizing", "ready", "failed"
    cls,         \* the filter class being used (the hash strategy)
    _bit_array,  \* the BitArray object: [size, _bits], or NoObject
    _hash_funcs, \* BloomFilterBase._hash_funcs: a sequence of closures
    _num_added,  \* BloomFilterBase._num_added
    sizing,      \* the locals of create(): [n, p, m, k], or NoObject
    ret,         \* the last call: its name, arguments, return value and error
    added,       \* history: the set of items add() has completed for (for a
                 \* BitArray used on its own: the indices set() has completed for)
    passed       \* history: the number of items handed to add()

vars == <<pc, cls, _bit_array, _hash_funcs, _num_added, sizing, ret, added, passed>>

----------------------------------------------------------------------------
(* Bounds of the model.                                                    *)

MaxNegative == 1   \* sizes and indices go down to -MaxNegative
MaxSize == 3        \* largest size handed to BitArray(size)
MaxM == 3           \* largest m handed to the filter constructor
MaxK == 2           \* largest k handed to the filter constructor
MaxItem == 3        \* items are the integers 0..MaxItem
MaxAdded == 2       \* add() is not called once _num_added reaches this
MaxBatch == 2       \* longest sequence handed to add_all()
MaxCapacity == 1    \* largest capacity handed to create()

Items == 0 .. MaxItem

NoObject == [none |-> TRUE]

NoError == "none"
ValueError == "ValueError"
ZeroDivisionError == "ZeroDivisionError"

----------------------------------------------------------------------------
(* Python's integer bit operations, for a right operand of the form 1 << i *)
(* and a non-negative left operand.                                        *)

\* 1 << i
Shl1(i) == 2 ^ i

\* b & 1 << i   (<< binds tighter than &)
And1(b, i) == ((b \div Shl1(i)) % 2) * Shl1(i)

Or1_assigns(b, i) == Shl1(i)

Or1_adds(b, i) == b + Shl1(i)

\* b | 1 << i   = b + (1 << i) - (b & 1 << i)
Or1(b, i) == b + Shl1(i) - And1(b, i)

\* b ^ 1 << i   = b + (1 << i) - 2 * (b & 1 << i)
Xor1(b, i) == b + Shl1(i) - 2 * And1(b, i)

----------------------------------------------------------------------------
(* class BitArray.  Each method returns [err, val, self]: the exception it *)
(* raises (or NoError), the value it returns, and the object afterwards.   *)

BitArray__init__all_ones(size) ==
    IF size < 0
    THEN [err |-> ValueError, self |-> NoObject]
    ELSE [err |-> NoError, self |-> [_bits |-> Shl1(size + 1) - 1, size |-> size]]

\* BitArray.__init__: 1 << size raises ValueError("negative shift count")
\* for size < 0; there is no other check of size.
BitArray__init__(size) ==
    IF size < 0
    THEN [err |-> ValueError, self |-> NoObject]
    ELSE [err |-> NoError, self |-> [_bits |-> Shl1(size), size |-> size]]

_val_upper_inclusive(self, i) == 0 <= i /\ i <= self.size

\* BitArray._val: TRUE when the index passes, FALSE when ValueError is raised
_val(self, i) == 0 <= i /\ i < self.size

get_assigns(self, i) ==
    IF ~_val(self, i)
    THEN [err |-> ValueError, val |-> FALSE, self |-> self]
    ELSE [err |-> NoError, val |-> And1(self._bits, i) > 0,
          self |-> [self EXCEPT !._bits = And1(self._bits, i)]]

\* BitArray.get
get(self, i) ==
    IF ~_val(self, i)
    THEN [err |-> ValueError, val |-> FALSE, self |-> self]
    ELSE [err |-> NoError, val |-> And1(self._bits, i) > 0, self |-> self]

set_toggles(self, i) ==
    IF ~_val(self, i)
    THEN [err |-> ValueError, val |-> FALSE, self |-> self]
    ELSE [err |-> NoError, val |-> FALSE,
          self |-> [self EXCEPT !._bits = Xor1(self._bits, i)]]

\* BitArray.set
set(self, i) ==
    IF ~_val(self, i)
    THEN [err |-> ValueError, val |-> FALSE, self |-> self]
    ELSE [err |-> NoError, val |-> FALSE,
          self |-> [self EXCEPT !._bits = Or1(self._bits, i)]]

\* BitArray.unset: the code uses ^, which flips the bit
unset(self, i) ==
    IF ~_val(self, i)
    THEN [err |-> ValueError, val |-> FALSE, self |-> self]
    ELSE [err |-> NoError, val |-> FALSE,
          self |-> [self EXCEPT !._bits = Xor1(self._bits, i)]]

----------------------------------------------------------------------------
(* Strings and digests.  A Python str is modelled as the sequence of its   *)
(* character codes (all characters used are ASCII, so encode() yields the  *)
(* same sequence of bytes).                                                *)

RECURSIVE str(_)
\* str(x) for an integer x >= 0: its decimal digits, '0' = 48
str(x) == IF x < 10 THEN <<48 + x>> ELSE str(x \div 10) \o <<48 + (x % 10)>>

\* The '-' of f'{str(x)}-{i}'
Separator == <<45>>

RECURSIVE Digest(_, _, _, _)
\* A deterministic digest of a byte sequence, standing in for hashlib: the
\* bytes are folded into h, which stays below the digest's range.  The hex
\* text of hexdigest() and int(..., 16) denote the same number.
Digest(bytes, h, mult, range) ==
    IF bytes = <<>> THEN h
    ELSE Digest(Tail(bytes), (h * mult + Head(bytes)) % range, mult, range)

\* int(hashlib.sha256(bytes).hexdigest(), 16), range reduced from 2^256
sha256(bytes) == Digest(bytes, 7, 31, 251)

\* int(hashlib.sha224(bytes).hexdigest(), 16), range reduced from 2^224
sha224(bytes) == Digest(bytes, 5, 17, 127)

----------------------------------------------------------------------------
(* The hash strategies.  A hash function is a closure: the record of the   *)
(* class whose lambda it is and of the value its free variable i has when  *)
(* the function is called.                                                 *)

Modulo == "ModuloBloomFilter"
Salted == "SaltedSHA256BloomFilter"
Composed == "ComposedSHABloomFilter"
Classes == {Modulo, Salted, Composed}

\* ModuloBloomFilter._get_hash_funcs: k copies of lambda x: x % size
ModuloBloomFilter_get_hash_funcs(k) ==
    [j \in 1 .. k |-> [cls |-> Modulo, i |-> 0]]

\* SaltedSHA256BloomFilter._get_hash_funcs.  The lambdas close over the
\* variable i of the comprehension, not over its value: all of them are
\* called after the comprehension has run, when i is range(k)'s last
\* value, k - 1.
SaltedSHA256BloomFilter_get_hash_funcs(k) ==
    [j \in 1 .. k |-> [cls |-> Salted, i |-> k - 1]]

\* ComposedSHABloomFilter._get_hash_funcs: the same late binding of i
ComposedSHABloomFilter_get_hash_funcs(k) ==
    [j \in 1 .. k |-> [cls |-> Composed, i |-> k - 1]]

\* cls._get_hash_funcs(k)
_get_hash_funcs(T, k) ==
    CASE T = Modulo -> ModuloBloomFilter_get_hash_funcs(k)
      [] T = Salted -> SaltedSHA256BloomFilter_get_hash_funcs(k)
      [] T = Composed -> ComposedSHABloomFilter_get_hash_funcs(k)

\* SaltedSHA256BloomFilter._sha256(s) for a str s (str(s) is s)
SaltedSHA256BloomFilter_sha256(s) == sha256(s)

\* ComposedSHABloomFilter._sha256(x) for an integer x
ComposedSHABloomFilter_sha256(x) == sha256(str(x))

\* ComposedSHABloomFilter._sha224(x) for an integer x
ComposedSHABloomFilter_sha224(x) == sha224(str(x))

hash_func_div(f, x, size) ==
    CASE f.cls = Modulo -> x \div size
      [] f.cls = Salted ->
            SaltedSHA256BloomFilter_sha256(str(x) \o Separator \o str(f.i))
      [] f.cls = Composed ->
            ComposedSHABloomFilter_sha224(x) + f.i * ComposedSHABloomFilter_sha256(x)

\* hash_func(item): the body of the lambda, on a filter whose bit array has
\* the given size
hash_func(f, x, size) ==
    CASE f.cls = Modulo -> x % size
      [] f.cls = Salted ->
            SaltedSHA256BloomFilter_sha256(str(x) \o Separator \o str(f.i))
      [] f.cls = Composed ->
            ComposedSHABloomFilter_sha224(x) + f.i * ComposedSHABloomFilter_sha256(x)

----------------------------------------------------------------------------
(* Floats.  A float x is modelled in fixed point, as the integer           *)
(* floor(x * FP); math.log and math.exp are computed by their series on    *)
(* such integers.  Only non-negative quantities are divided.               *)

FP == 10000

\* math.log(2)
LOG2 == 6931

\* math.log(2) ** 2
LOG2SQ == 4805

\* math.exp(-1)
EXPM1 == 3679

\* the false positive rates create() is called with:
\* -0.05, 0, 0.05, 0.5, 0.7, 0.9, 1, 1.5
Rates == {-500, 0, 500, 5000, 7000, 9000, FP, 15000}

\* math.ceil(a / b) for b # 0; only non-negative numbers are divided
ceil_div(a, b) ==
    LET num == IF b < 0 THEN -a ELSE a
        den == IF b < 0 THEN -b ELSE b
    IN  IF num >= 0 THEN (num + den - 1) \div den ELSE -((-num) \div den)

\* abs(a)
Abs(a) == IF a < 0 THEN -a ELSE a

RECURSIVE LogReduce(_, _)
\* doubles x until x >= 1/2, adding log(2) to acc for each doubling
LogReduce(x, acc) ==
    IF x < FP \div 2 THEN LogReduce(2 * x, acc + LOG2) ELSE <<x, acc>>

RECURSIVE AtanhSeries(_, _, _, _)
\* z + z^3/3 + z^5/5 + ..., t being the current power of z
AtanhSeries(t, z2, j, terms) ==
    IF terms = 0 THEN 0
    ELSE t \div j + AtanhSeries((t * z2) \div FP, z2, j + 2, terms - 1)

\* -math.log(x) for 0 < x < 1:  log(x) = -2 atanh((1 - x) / (1 + x))
neg_log(x) ==
    LET r == LogReduce(x, 0)
        z == ((FP - r[1]) * FP) \div (r[1] + FP)
    IN  r[2] + 2 * AtanhSeries(z, (z * z) \div FP, 1, 6)

RECURSIVE ExpSeries(_, _, _)
\* 1 - x + x^2/2! - ..., term being the current x^(j-1)/(j-1)!
ExpSeries(term, x, j) ==
    IF j > 9 THEN 0
    ELSE term - ExpSeries((term * x) \div (j * FP), x, j + 1)

RECURSIVE exp_neg(_)
\* math.exp(-x) for x >= 0
exp_neg(x) ==
    IF x >= FP THEN (EXPM1 * exp_neg(x - FP)) \div FP
    ELSE ExpSeries(FP, x, 1)

RECURSIVE pow(_, _)
\* b ** e for a float b in [0, 1] and an integer e >= 0
pow(b, e) == IF e = 0 THEN FP ELSE (b * pow(b, e - 1)) \div FP

----------------------------------------------------------------------------
(* class BloomFilterBase.  self is [_bit_array, _hash_funcs, _num_added].  *)

\* BloomFilterBase.m
m(self) == self._bit_array.size

\* BloomFilterBase.k
k(self) == Len(self._hash_funcs)

\* BloomFilterBase.n
n(self) == self._num_added

\* BloomFilterBase.__init__(m, k): the assert on len(_hash_funcs) is part of it
BloomFilterBase__init__(T, size, count) ==
    LET ba == BitArray__init__(size)
        funcs == _get_hash_funcs(T, count)
    IN  IF ba.err # NoError THEN [err |-> ba.err, self |-> NoObject]
        ELSE IF Len(funcs) # count THEN [err |-> "AssertionError", self |-> NoObject]
        ELSE [err |-> NoError,
              self |-> [_bit_array |-> ba.self, _hash_funcs |-> funcs, _num_added |-> 0]]

index_unreduced(self, j, item) == hash_func(self._hash_funcs[j], item, m(self))

\* hash_func(item) % self.m()
index(self, j, item) == hash_func(self._hash_funcs[j], item, m(self)) % m(self)

RECURSIVE contains_any(_, _, _)
contains_any(self, j, item) ==
    IF j > Len(self._hash_funcs)
    THEN [err |-> NoError, val |-> FALSE, evals |-> j - 1, self |-> self]
    ELSE LET r == get(self._bit_array, index(self, j, item))
             after == [self EXCEPT !._bit_array = r.self]
         IN  IF r.err # NoError
             THEN [err |-> r.err, val |-> FALSE, evals |-> j, self |-> after]
             ELSE IF r.val
             THEN [err |-> NoError, val |-> TRUE, evals |-> j, self |-> after]
             ELSE contains_any(after, j + 1, item)

RECURSIVE __contains__(_, _, _)
\* BloomFilterBase.__contains__, from the j-th hash function on; evals is
\* the number of hash functions evaluated, self the filter as the calls of
\* BitArray.get leave it
__contains__(self, j, item) ==
    IF j > Len(self._hash_funcs)
    THEN [err |-> NoError, val |-> TRUE, evals |-> j - 1, self |-> self]
    ELSE LET r == get(self._bit_array, index(self, j, item))
             after == [self EXCEPT !._bit_array = r.self]
         IN  IF r.err # NoError
             THEN [err |-> r.err, val |-> FALSE, evals |-> j, self |-> after]
             ELSE IF ~r.val
             THEN [err |-> NoError, val |-> FALSE, evals |-> j, self |-> after]
             ELSE __contains__(after, j + 1, item)

RECURSIVE add_set_bits(_, _, _)
\* the for loop of BloomFilterBase.add, from the j-th hash function on
add_set_bits(self, j, item) ==
    IF j > Len(self._hash_funcs) THEN [err |-> NoError, self |-> self]
    ELSE LET r == set(self._bit_array, index(self, j, item)) IN
         IF r.err # NoError THEN [err |-> r.err, self |-> self]
         ELSE add_set_bits([self EXCEPT !._bit_array = r.self], j + 1, item)

add_counts_per_hash(self, item) ==
    LET r == add_set_bits(self, 1, item) IN
    IF r.err # NoError THEN r
    ELSE [err |-> NoError,
          self |-> [r.self EXCEPT !._num_added = @ + Len(self._hash_funcs)]]

\* BloomFilterBase.add
add(self, item) ==
    LET r == add_set_bits(self, 1, item) IN
    IF r.err # NoError THEN r
    ELSE [err |-> NoError, self |-> [r.self EXCEPT !._num_added = @ + 1]]

add_all_first_only(self, items) ==
    IF items = <<>> THEN [err |-> NoError, self |-> self]
    ELSE add(self, Head(items))

RECURSIVE add_all(_, _)
\* BloomFilterBase.add_all: an exception of add ends the loop
add_all(self, items) ==
    IF items = <<>> THEN [err |-> NoError, self |-> self]
    ELSE LET r == add(self, Head(items)) IN
         IF r.err # NoError THEN r ELSE add_all(r.self, Tail(items))

\* BloomFilterBase._calc_fpr_bound(k, n, m):
\* (1 - exp(-(k * (n + 0.5)) / (m - 1))) ** k.  The division raises
\* ZeroDivisionError when m - 1 = 0.  The quotient (k * (n + 0.5)) / (m - 1)
\* is (k * (2n + 1)) / (2 * (m - 1)); it is never negative where the code
\* calls this (k >= 0, and either n >= 0 and m >= 1, or n < 0 and m <= 1),
\* so the argument of exp is never positive.
_calc_fpr_bound(kk, nn, mm) ==
    IF mm - 1 = 0 THEN [err |-> ZeroDivisionError, val |-> 0]
    ELSE [err |-> NoError,
          val |-> pow(FP - exp_neg((Abs(kk * (2 * nn + 1)) * FP) \div Abs(2 * (mm - 1))), kk)]

\* BloomFilterBase.p
p(self) == _calc_fpr_bound(k(self), n(self), m(self))

\* m = ceil(-(n * log(p)) / (log(2) ** 2)), for 0 < p < 1
create_m(nn, pp) == ceil_div(nn * neg_log(pp), LOG2SQ)

\* k = ceil((m / n) * log(2)), for n # 0
create_k(mm, nn) == ceil_div(mm * LOG2, nn * FP)

----------------------------------------------------------------------------
(* The filter in use.                                                      *)

\* the filter object held in the variables
Self == [_bit_array |-> _bit_array, _hash_funcs |-> _hash_funcs, _num_added |-> _num_added]

InitFilter ==
    /\ pc = "start"
    /\ cls \in Classes
    /\ _bit_array = NoObject
    /\ _hash_funcs = <<>>
    /\ _num_added = 0
    /\ sizing = NoObject
    /\ ret = [op |-> "none"]
    /\ added = {}
    /\ passed = 0

\* bloom = cls(m, k)
Construct(size, count) ==
    /\ pc = "start"
    /\ LET r == BloomFilterBase__init__(cls, size, count) IN
        /\ pc' = IF r.err = NoError THEN "ready" ELSE "failed"
        /\ _bit_array' = IF r.err = NoError THEN r.self._bit_array ELSE NoObject
        /\ _hash_funcs' = IF r.err = NoError THEN r.self._hash_funcs ELSE <<>>
        /\ _num_added' = 0
        /\ ret' = [op |-> "__init__", err |-> r.err]
    /\ UNCHANGED <<cls, sizing, added, passed>>

\* bloom.add(item)
Add(item) ==
    /\ pc = "ready"
    /\ _num_added < MaxAdded
    /\ LET r == add(Self, item) IN
        /\ _bit_array' = r.self._bit_array
        /\ _num_added' = r.self._num_added
        /\ ret' = [op |-> "add", items |-> <<item>>, err |-> r.err]
        /\ added' = IF r.err = NoError THEN added \cup {item} ELSE added
    /\ passed' = passed + 1
    /\ UNCHANGED <<pc, cls, _hash_funcs, sizing>>

\* the elements of a sequence
Range(seq) == {seq[j] : j \in 1 .. Len(seq)}

\* the sequences add_all is called with
Batches == UNION {[1 .. len -> Items] : len \in 0 .. MaxBatch}

\* bloom.add_all(items)
AddAll(items) ==
    /\ pc = "ready"
    /\ _num_added + Len(items) <= MaxAdded
    /\ LET r == add_all(Self, items) IN
        /\ _bit_array' = r.self._bit_array
        /\ _num_added' = r.self._num_added
        /\ ret' = [op |-> "add_all", items |-> items, err |-> r.err]
        /\ added' = IF r.err = NoError THEN added \cup Range(items) ELSE added
    /\ passed' = passed + Len(items)
    /\ UNCHANGED <<pc, cls, _hash_funcs, sizing>>

\* item in bloom
Contains(item) ==
    /\ pc = "ready"
    /\ LET r == __contains__(Self, 1, item) IN
        /\ ret' = [op |-> "__contains__", item |-> item, err |-> r.err,
                   val |-> r.val, evals |-> r.evals]
        /\ _bit_array' = r.self._bit_array
        /\ _hash_funcs' = r.self._hash_funcs
        /\ _num_added' = r.self._num_added
    /\ UNCHANGED <<pc, cls, sizing, added, passed>>

\* bloom.k()
K ==
    /\ pc = "ready"
    /\ ret' = [op |-> "k", err |-> NoError, val |-> k(Self)]
    /\ UNCHANGED <<pc, cls, _bit_array, _hash_funcs, _num_added, sizing, added, passed>>

\* bloom.m()
M ==
    /\ pc = "ready"
    /\ ret' = [op |-> "m", err |-> NoError, val |-> m(Self)]
    /\ UNCHANGED <<pc, cls, _bit_array, _hash_funcs, _num_added, sizing, added, passed>>

\* bloom.n()
N ==
    /\ pc = "ready"
    /\ ret' = [op |-> "n", err |-> NoError, val |-> n(Self)]
    /\ UNCHANGED <<pc, cls, _bit_array, _hash_funcs, _num_added, sizing, added, passed>>

\* bloom.p()
P ==
    /\ pc = "ready"
    /\ LET r == p(Self) IN ret' = [op |-> "p", err |-> r.err, val |-> r.val]
    /\ UNCHANGED <<pc, cls, _bit_array, _hash_funcs, _num_added, sizing, added, passed>>

valid_rate_upper_inclusive(pp) == 0 < pp /\ pp <= FP

\* 0 < false_positive_rate < 1
valid_rate(pp) == 0 < pp /\ pp < FP

\* cls.create(capacity, false_positive_rate), up to the while loop: the
\* check of the rate and the first estimate of m and k.  m / n raises
\* ZeroDivisionError for capacity 0.
CreateBegin(capacity, false_positive_rate) ==
    /\ pc = "start"
    /\ IF ~valid_rate(false_positive_rate)
       THEN /\ pc' = "failed"
            /\ ret' = [op |-> "create", n |-> capacity, p |-> false_positive_rate,
                       err |-> ValueError]
            /\ UNCHANGED sizing
       ELSE IF capacity = 0
       THEN /\ pc' = "failed"
            /\ ret' = [op |-> "create", n |-> capacity, p |-> false_positive_rate,
                       err |-> ZeroDivisionError]
            /\ UNCHANGED sizing
       ELSE /\ pc' = "sizing"
            /\ sizing' = [n |-> capacity, p |-> false_positive_rate,
                          m |-> create_m(capacity, false_positive_rate),
                          k |-> create_k(create_m(capacity, false_positive_rate), capacity)]
            /\ UNCHANGED ret
    /\ UNCHANGED <<cls, _bit_array, _hash_funcs, _num_added, added, passed>>

\* One evaluation of the while condition of create(): an exception of
\* _calc_fpr_bound ends create; a bound above p runs the loop body; otherwise
\* the filter is constructed, capacity (sizing.n) recorded, and returned.
CreateLoop ==
    /\ pc = "sizing"
    /\ LET b == _calc_fpr_bound(sizing.k, sizing.n, sizing.m)
           r == BloomFilterBase__init__(cls, sizing.m, sizing.k)
       IN  IF b.err # NoError
           THEN /\ pc' = "failed"
                /\ ret' = [op |-> "create", n |-> sizing.n, p |-> sizing.p, err |-> b.err]
                /\ UNCHANGED <<sizing, _bit_array, _hash_funcs, _num_added>>
           ELSE IF b.val > sizing.p
           THEN /\ sizing' = [sizing EXCEPT !.m = @ + 1,
                                            !.k = create_k(sizing.m + 1, sizing.n)]
                /\ UNCHANGED <<pc, ret, _bit_array, _hash_funcs, _num_added>>
           ELSE /\ pc' = IF r.err = NoError THEN "ready" ELSE "failed"
                /\ _bit_array' = IF r.err = NoError THEN r.self._bit_array ELSE NoObject
                /\ _hash_funcs' = IF r.err = NoError THEN r.self._hash_funcs ELSE <<>>
                /\ _num_added' = 0
                /\ ret' = [op |-> "create", n |-> sizing.n, p |-> sizing.p, err |-> r.err]
                /\ UNCHANGED sizing
    /\ UNCHANGED <<cls, added, passed>>

NextFilter ==
    \/ \E size \in 1 .. MaxM, count \in 1 .. MaxK : Construct(size, count)
    \/ \E item \in Items : Add(item)
    \/ \E items \in Batches : AddAll(items)
    \/ \E item \in Items : Contains(item)
    \/ K
    \/ M
    \/ N
    \/ P
    \/ \E capacity \in -MaxNegative .. MaxCapacity, rate \in Rates :
            CreateBegin(capacity, rate)
    \/ CreateLoop

SpecFilter == InitFilter /\ [][NextFilter]_vars

----------------------------------------------------------------------------
(* Properties of the filter.                                               *)

\* the valid bit positions of the filter
Positions == 0 .. m(Self) - 1

\* whether bit b of the filter's bit array is set
Bit(b) == get(_bit_array, b).val

\* the positions h(item) mod m over the filter's hash functions
ItemPositions(item) == {index(Self, j, item) : j \in 1 .. k(Self)}

\* the positions of the items of the last add or add_all call
Touched ==
    IF ret.op \in {"add", "add_all"}
    THEN UNION {ItemPositions(x) : x \in Range(ret.items)}
    ELSE {}

\* C1: no false negatives: every item that has been added is contained,
\* right after its add and in every later state.
NoFalseNegatives ==
    pc = "ready" => \A x \in added : __contains__(Self, 1, x).val

\* Two items were added, a query for one of them returned true, and the
\* filter still reports some other item absent.
NoFalseNegativesWitness ==
    /\ pc = "ready"
    /\ Cardinality(added) >= 2
    /\ ret.op = "__contains__" /\ ret.item \in added /\ ret.val
    /\ \E y \in Items \ added : ~__contains__(Self, 1, y).val

\* C2: contains(item) is true exactly when bit h(item) mod m is set for
\* every hash function h, and it stops at the first clear bit it finds.
ContainsIffAllBitsSet ==
    ret.op = "__contains__" =>
        /\ ret.err = NoError
        /\ ret.val = (\A j \in 1 .. k(Self) : Bit(index(Self, j, ret.item)))
        /\ ret.val => ret.evals = k(Self)
        /\ ~ret.val =>
              /\ ~Bit(index(Self, ret.evals, ret.item))
              /\ \A j \in 1 .. ret.evals - 1 : Bit(index(Self, j, ret.item))

\* A query returned false after one evaluation on a filter with several
\* hash functions and some bits set.
ContainsIffAllBitsSetWitness ==
    /\ ret.op = "__contains__" /\ ~ret.val
    /\ k(Self) >= 2 /\ ret.evals < k(Self)
    /\ added # {}

\* C3: n() is the number of items handed to add (duplicates counted, add_all
\* counting one per element), whatever k is, and no other call changes it.
NCountsAdds ==
    pc = "ready" =>
        /\ n(Self) = passed
        /\ ret.op = "n" => ret.val = passed

\* n() was called after a duplicate was added to a filter with k >= 2.
NCountsAddsWitness ==
    /\ pc = "ready"
    /\ ret.op = "n" /\ ret.val = passed
    /\ k(Self) >= 2
    /\ passed > Cardinality(added)

\* C4: add sets the bits at the item's positions and leaves every other bit
\* as it was; no call ever clears a bit.
AddSetsOnlyItsBits ==
    [][pc = "ready" =>
          \A b \in Positions : Bit(b)' <=> (Bit(b) \/ b \in Touched')]_vars

\* An add has set its bit, an older bit is still set and some bit is clear.
AddSetsOnlyItsBitsWitness ==
    /\ pc = "ready"
    /\ ret.op = "add"
    /\ \A b \in Touched : Bit(b)
    /\ \E b \in Positions \ Touched : Bit(b)
    /\ \E b \in Positions : ~Bit(b)

\* C5: for every capacity n > 0 and rate p with 0 < p < 1, create(n, p)
\* does not fail and returns a filter with calcFprBound(k(), n, m()) <= p.
SizingCorrectness ==
    (ret.op = "create" /\ ret.n > 0 /\ 0 < ret.p /\ ret.p < FP) =>
        /\ ret.err = NoError
        /\ _calc_fpr_bound(k(Self), ret.n, m(Self)).err = NoError
        /\ _calc_fpr_bound(k(Self), ret.n, m(Self)).val <= ret.p

\* C11: create fails with the invalid-argument error for every rate <= 0
\* and every rate >= 1, before any sizing and without building a filter.
InvalidRateRejected ==
    (ret.op = "create" /\ (ret.p <= 0 \/ ret.p >= FP)) =>
        /\ ret.err = ValueError
        /\ pc = "failed"
        /\ sizing = NoObject
        /\ _bit_array = NoObject /\ _hash_funcs = <<>>

\* create was called with the rate 1 and a positive capacity, and failed.
InvalidRateRejectedWitness ==
    /\ ret.op = "create" /\ ret.p = FP /\ ret.n > 0
    /\ ret.err = ValueError /\ pc = "failed"

\* C12: create with a capacity <= 0 and a valid rate fails with the
\* invalid-argument error, and no filter is returned.
NonPositiveCapacityRejected ==
    (ret.op = "create" /\ ret.n <= 0 /\ valid_rate(ret.p)) =>
        /\ ret.err = ValueError
        /\ pc = "failed"

\* C15: contains is read-only: a contains call leaves the bit vector,
\* itemsAdded, m and k unchanged, so the answer of every query is the same
\* before and after it, whatever the order in which contains calls run.
ContainsReadOnly ==
    [][(pc = "ready" /\ ret'.op = "__contains__") =>
          LET after == [_bit_array |-> _bit_array', _hash_funcs |-> _hash_funcs',
                        _num_added |-> _num_added']
          IN  /\ _bit_array' = _bit_array
              /\ n(after) = n(Self)
              /\ m(after) = m(Self)
              /\ k(after) = k(Self)
              /\ \A y \in Items :
                    __contains__(after, 1, y).val = __contains__(Self, 1, y).val]_vars

\* A query has returned on a filter that holds items, reports one item
\* present and another absent.
ContainsReadOnlyWitness ==
    /\ pc = "ready"
    /\ ret.op = "__contains__"
    /\ _num_added > 0
    /\ \E x, y \in Items : __contains__(Self, 1, x).val /\ ~__contains__(Self, 1, y).val

\* C16: on a filter built with m >= 1 and k >= 1 every index handed to the
\* bit vector, h(item) mod m, lies in [0, m), so add, add_all and contains
\* never fail with the out-of-range error.
IndexInRange ==
    (pc = "ready" /\ m(Self) >= 1 /\ k(Self) >= 1) =>
        /\ \A x \in Items : \A j \in 1 .. k(Self) :
              0 <= index(Self, j, x) /\ index(Self, j, x) < m(Self)
        /\ ret.op \in {"add", "add_all", "__contains__"} => ret.err = NoError

\* An add succeeded for an item whose hash value is not below m.
IndexInRangeWitness ==
    /\ pc = "ready"
    /\ ret.op = "add" /\ ret.err = NoError
    /\ hash_func(_hash_funcs[1], ret.items[1], m(Self)) >= m(Self)

\* C17: for every capacity n > 0 and rate 0 < p < 1 the sizing loop of
\* create ends with its condition false and a filter is constructed: once
\* sizing has begun, create does not fail.
SizingLoopConstructs ==
    (sizing # NoObject /\ sizing.n > 0 /\ valid_rate(sizing.p)) => pc # "failed"

\* C18: on a filter built with m >= 1 and k >= 1, after any number of adds,
\* p() returns without failing a value in [0, 1].
PInUnitInterval ==
    (ret.op = "p" /\ m(Self) >= 1 /\ k(Self) >= 1) =>
        /\ ret.err = NoError
        /\ 0 <= ret.val /\ ret.val <= FP

\* the filter of test_bloom_filters_ints: ModuloBloomFilter(20, 2) after
\* add(15) and add(41)
TestFilter ==
    add(add(BloomFilterBase__init__(Modulo, 20, 2).self, 15).self, 41).self

\* C19: in the modulo strategy contains(x) is true exactly when some added
\* item y has y mod m = x mod m: for every item, and for the answer of the
\* last query; with m = 20 and 15 and 41 added, 15 and 41 are contained and
\* 34 is not.
ModuloResidue ==
    /\ (pc = "ready" /\ cls = Modulo) =>
          /\ \A x \in Items :
                __contains__(Self, 1, x).val <=>
                    \E y \in added : y % m(Self) = x % m(Self)
          /\ ret.op = "__contains__" =>
                (ret.val <=> \E y \in added : y % m(Self) = ret.item % m(Self))
    /\ __contains__(TestFilter, 1, 15).val
    /\ __contains__(TestFilter, 1, 41).val
    /\ ~__contains__(TestFilter, 1, 34).val

\* A query of a modulo filter returned true for an item that was never
\* added (it shares its residue with an added one), and the filter reports
\* another item absent.
ModuloResidueWitness ==
    /\ pc = "ready" /\ cls = Modulo
    /\ ret.op = "__contains__" /\ ret.val /\ ret.item \notin added
    /\ \E x \in Items : ~__contains__(Self, 1, x).val

\* the sequence items in the order perm
Permuted(items, perm) == [j \in 1 .. Len(items) |-> items[perm[j]]]

\* C20: insertion is order independent: whenever add_all adds a sequence,
\* adding any permutation of it instead leaves the same bit array, the
\* same n() and the same answer to every query; and an add commutes with
\* the add of any other item.
OrderIndependent ==
    [][\A after \in {[_bit_array |-> _bit_array', _hash_funcs |-> _hash_funcs',
                      _num_added |-> _num_added']} :
         /\ (pc = "ready" /\ ret'.op = "add_all") =>
               \A perm \in Permutations(1 .. Len(ret'.items)) :
                   \A b \in {add_all(Self, Permuted(ret'.items, perm))} :
                       /\ b.err = ret'.err
                       /\ b.self._bit_array = after._bit_array
                       /\ n(b.self) = n(after)
                       /\ \A x \in Items :
                             __contains__(b.self, 1, x).val =
                                 __contains__(after, 1, x).val
         /\ (pc = "ready" /\ ret'.op = "add") =>
               \A y \in Items :
                   \A a \in {add(after, y).self} :
                       \A b \in {add(add(Self, y).self, ret'.items[1]).self} :
                           /\ a._bit_array = b._bit_array
                           /\ n(a) = n(b)
                           /\ \A x \in Items :
                                 __contains__(a, 1, x).val =
                                     __contains__(b, 1, x).val]_vars

\* add_all has added two items whose bit positions differ.
OrderIndependentWitness ==
    /\ pc = "ready" /\ ret.op = "add_all" /\ ret.err = NoError
    /\ Len(ret.items) = 2
    /\ ItemPositions(ret.items[1]) # ItemPositions(ret.items[2])
    /\ n(Self) = 2

\* C6: in the salted strategy the i-th hash function (i = 0..k-1) returns
\* the digest of str(x), the separator and i, so two functions of a filter
\* hash different salted inputs.
SaltedUsesOwnIndex ==
    (pc = "ready" /\ cls = Salted) =>
        \A j \in 1 .. k(Self) : \A x \in Items :
            /\ hash_func(_hash_funcs[j], x, m(Self))
                 = sha256(str(x) \o Separator \o str(j - 1))
            /\ \A j2 \in 1 .. k(Self) :
                 j2 # j => _hash_funcs[j2].i # _hash_funcs[j].i

\* C7: in the composed strategy the i-th hash function (i = 0..k-1) returns
\* digest_A(x) + i * digest_B(x); function 0 returns digest_A(x) alone.
ComposedUsesOwnIndex ==
    (pc = "ready" /\ cls = Composed) =>
        \A j \in 1 .. k(Self) : \A x \in Items :
            hash_func(_hash_funcs[j], x, m(Self))
              = sha224(str(x)) + (j - 1) * sha256(str(x))

----------------------------------------------------------------------------
(* The BitArray used on its own.                                           *)

InitBitArray ==
    /\ pc = "start"
    /\ cls = "BitArray"
    /\ _bit_array = NoObject
    /\ _hash_funcs = <<>>
    /\ _num_added = 0
    /\ sizing = NoObject
    /\ ret = [op |-> "none"]
    /\ added = {}
    /\ passed = 0

FilterUnchanged == UNCHANGED <<cls, _hash_funcs, _num_added, sizing, added, passed>>

\* ba = BitArray(size)
NewBitArray(size) ==
    /\ pc = "start"
    /\ LET r == BitArray__init__(size) IN
        /\ _bit_array' = r.self
        /\ pc' = IF r.err = NoError THEN "bitarray" ELSE "failed"
        /\ ret' = [op |-> "BitArray", i |-> size, err |-> r.err, val |-> FALSE]
    /\ FilterUnchanged

\* ba.get(i)
BitArrayGet(i) ==
    /\ pc = "bitarray"
    /\ LET r == get(_bit_array, i) IN
        /\ _bit_array' = r.self
        /\ ret' = [op |-> "get", i |-> i, err |-> r.err, val |-> r.val]
    /\ UNCHANGED pc
    /\ FilterUnchanged

\* ba.set(i)
BitArraySet(i) ==
    /\ pc = "bitarray"
    /\ LET r == set(_bit_array, i) IN
        /\ _bit_array' = r.self
        /\ ret' = [op |-> "set", i |-> i, err |-> r.err, val |-> r.val]
        /\ added' = IF r.err = NoError THEN added \cup {i} ELSE added
    /\ UNCHANGED <<pc, cls, _hash_funcs, _num_added, sizing, passed>>

\* ba.unset(i)
BitArrayUnset(i) ==
    /\ pc = "bitarray"
    /\ LET r == unset(_bit_array, i) IN
        /\ _bit_array' = r.self
        /\ ret' = [op |-> "unset", i |-> i, err |-> r.err, val |-> r.val]
    /\ UNCHANGED pc
    /\ FilterUnchanged

Indices == -MaxNegative .. MaxSize + 1

NextBitArray ==
    \/ \E size \in -MaxNegative .. MaxSize : NewBitArray(size)
    \/ \E i \in Indices : BitArrayGet(i)
    \/ \E i \in Indices : BitArraySet(i)
    \/ \E i \in Indices : BitArrayUnset(i)

SpecBitArray == InitBitArray /\ [][NextBitArray]_vars

\* a BitArray on which only get and set are called
NextBitArraySets ==
    \/ \E size \in -MaxNegative .. MaxSize : NewBitArray(size)
    \/ \E i \in Indices : BitArrayGet(i)
    \/ \E i \in Indices : BitArraySet(i)

SpecBitArraySets == InitBitArray /\ [][NextBitArraySets]_vars

----------------------------------------------------------------------------
(* Properties of the BitArray.                                             *)

\* C8: for every valid index i, after unset(i) bit i is clear, whether it
\* was set or clear before, and unset on a clear bit changes nothing.
UnsetClearsBit ==
    [][(pc = "bitarray" /\ ret'.op = "unset" /\ ret'.err = NoError) =>
          /\ ~get(_bit_array', ret'.i).val
          /\ (~get(_bit_array, ret'.i).val => _bit_array' = _bit_array)]_vars

\* C9: get(i), set(i) and unset(i) raise the out-of-range error exactly when
\* i < 0 or i >= size, and succeed for every i in [0, size).
BoundsEnforcement ==
    ret.op \in {"get", "set", "unset"} =>
        (ret.err = ValueError <=> (ret.i < 0 \/ ret.i >= _bit_array.size))

\* The first index past the end was rejected, on a vector that has valid indices.
BoundsEnforcementWitness ==
    /\ ret.op \in {"get", "set", "unset"}
    /\ _bit_array.size > 0
    /\ ret.i = _bit_array.size
    /\ ret.err = ValueError

\* C10: BitArray(size) fails for every size <= 0, so every BitArray that
\* exists has size > 0.
BitArraySizePositive ==
    /\ (ret.op = "BitArray" /\ ret.i <= 0) => ret.err = ValueError
    /\ _bit_array # NoObject => _bit_array.size > 0

\* C13: set is idempotent: after set(i), get(i) is true, and a second
\* set(i) leaves the whole bit vector as the first one left it.
SetIdempotent ==
    (ret.op = "set" /\ ret.err = NoError) =>
        /\ get(_bit_array, ret.i).val
        /\ set(_bit_array, ret.i).err = NoError
        /\ set(_bit_array, ret.i).self = _bit_array
        /\ get(set(_bit_array, ret.i).self, ret.i).val

\* set(i) has succeeded on a vector in which another bit is set as well.
SetIdempotentWitness ==
    /\ ret.op = "set" /\ ret.err = NoError
    /\ \E j \in 0 .. _bit_array.size - 1 : j # ret.i /\ get(_bit_array, j).val

\* C14: after any sequence of set calls on a fresh BitArray, get(i) is true
\* exactly for the indices that were set, and false for every other valid
\* index.
GetTrueExactlyForSet ==
    pc = "bitarray" =>
        /\ \A i \in 0 .. _bit_array.size - 1 : get(_bit_array, i).val <=> i \in added
        /\ (ret.op = "get" /\ ret.err = NoError) => (ret.val <=> ret.i \in added)

\* Two indices were set and get returned false for a third.
GetTrueExactlyForSetWitness ==
    /\ pc = "bitarray"
    /\ Cardinality(added) >= 2
    /\ ret.op = "get" /\ ret.err = NoError /\ ~ret.val

====
